---- MODULE Spec2Model ----
(***************************************************************************)
(* State-machine model of TutorialVideoPlayer (react-tutorial-player):     *)
(* the interaction sequencer of src/src/hooks/useMediaQuery.ts (the first  *)
(* copy of the component, lines 37-710), its playback surface, and the     *)
(* pure layout functions it uses.                                          *)
(*                                                                         *)
(* Every handler is one atomic action: React commits the state a handler   *)
(* sets and re-renders before the next event is delivered, so the render   *)
(* (renderTutorialOverlay, which sorts the active stop point's areas in    *)
(* place) is the tail of every action.                                     *)
(***************************************************************************)
EXTENDS Integers, Sequences, FiniteSets

\* ------------------------------------------------------------------ bounds
\* Length of the video in time units (what the playback surface reports).
VideoDuration == 3
\* Longest areas list of a stop point in the tutorials drawn as inputs.
MaxAreas == 2
\* Ghost notification counters saturate here (2 = "more than once").
MaxNotify == 2
\* Container sides of the bubble placement go up to 40 * MaxContainerUnits px.
MaxContainerUnits == 2
\* Measured bubble sides go up to 10 * MaxBubbleUnits px.
MaxBubbleUnits == 3

\* ------------------------------------------------------- program constants
\* useRef(0) / useState(0) / useState(null): the initial cursor values.
Null == 0

\* -------------------------------------------------------------- input data
NoSource == "none"
VideoSources == {"url", "file"}
\* The sources that are File objects (videoSource instanceof File); every
\* other given source is a URL string.
FileSources == {"file", "otherFile"}
\* The sources the URL's life cycle is followed for.
SourceInputs == {"url"} \cup FileSources \cup {NoSource}

\* The values of videoUrl: null, the string that was passed, or an object URL
\* named n (URL.createObjectURL returns a new URL at each call).
NoUrl == [blob |-> FALSE, of |-> NoSource, n |-> 0]
StringUrl(vs) == [blob |-> FALSE, of |-> vs, n |-> 0]
ObjectUrl(vs, n) == [blob |-> TRUE, of |-> vs, n |-> n]

\* A name no URL on record carries.
FreshName(created) ==
  CHOOSE n \in 1..(Cardinality(created) + 1) :
    /\ \A u \in created : u.n # n
    /\ \A m \in 1..(n - 1) : \E u \in created : u.n = m

\* The useMemo on [videoSource], given the URLs on record.
VideoUrl(vs, created) ==
  IF vs = NoSource THEN NoUrl
  ELSE IF vs \notin FileSources THEN StringUrl(vs)
  ELSE ObjectUrl(vs, FreshName(created))

\* Mutant of RevokeCleanup: the instanceof File test is dropped.
RevokeCleanup_NoFileTest(url, vs) == IF url # NoUrl THEN {url} ELSE {}

\* The cleanup of the effect on [videoUrl, videoSource], closed over the
\* values of the render that installed it: the URLs it revokes.
RevokeCleanup(url, vs) ==
  IF url # NoUrl /\ vs \in FileSources THEN {url} ELSE {}
\* TutorialJsonData {version, stopPoints}; NoData stands for a missing prop.
TutorialJsonData(sp) == [version |-> "1.1", stopPoints |-> sp]
NoData == [version |-> "", stopPoints |-> <<>>]

\* An InteractionArea, as far as the sequencer reads it: order, hasNextButton.
Area(o, b) == [order |-> o, hasNextButton |-> b]

\* Authored areas lists: for each length n <= MaxAreas the orders 1..n authored
\* ascending and authored descending (presentation order differs from storage
\* order); the area of order o carries a Continue button iff o is odd.
AreaLists ==
  UNION {{[i \in 1..n |-> Area(i, i % 2 = 1)],
          [i \in 1..n |-> Area(n + 1 - i, (n + 1 - i) % 2 = 1)]}
         : n \in 0..MaxAreas}

StopPoint(t, as) == [time |-> t, areas |-> as]

\* Stop-time sequences of the input tutorials: strictly increasing, >= 0.
StopTimes == {<<1>>, <<VideoDuration>>, <<1, 2>>, <<2, VideoDuration + 1>>}

\* The tutorials drawn as inputs: for each stop-time sequence, every choice
\* of an authored areas list per stop point (well-formed: times strictly
\* increasing, orders unique within a stop point).
Tutorials ==
  UNION {{TutorialJsonData([i \in 1..Len(ts) |-> StopPoint(ts[i], al[i])])
            : al \in [1..Len(ts) -> AreaLists]}
         : ts \in StopTimes}

\* ------------------------------------------------------------------- state
VARIABLES
  videoSource,        \* prop videoSource (NoSource when missing)
  tutorialData,       \* prop tutorialData.stopPoints (NoData when missing)
  hasStarted,         \* useState(false)
  isFinished,         \* useState(false)
  isPlaying,          \* useState(false); the `playing` prop of the player
  isBubbleClosing,    \* useState(false)
  activeStopPoint,    \* useState(null): position in stopPoints of the active StopPoint, or Null
  activeAreaIndex,    \* useState(0)
  nextStopPointIndex, \* useRef(0), 0-based cursor into stopPoints
  currentTime,        \* useState(0), the displayed time
  duration,           \* useState(0)
  playerTime,         \* videoRef.current.currentTime
  endedQueued,        \* the playback surface has an `ended` event to deliver
  timers,             \* pending setTimeout callbacks, oldest first
  authored,           \* ghost: tutorialData as it was passed in
  activations,        \* ghost: stop points activated since the last reset
  interactionLog,     \* ghost: onNextInteraction calls since the last activation
  startCount,         \* ghost: onTutorialStart calls since the last reset
  completeCount,      \* ghost: onTutorialComplete calls since the last reset
  containerRect,      \* SpeechBubble: videoContainer.getBoundingClientRect(), px
  bubbleRect,         \* SpeechBubble: bubbleRef.current.getBoundingClientRect(), px
  targetStyle,        \* SpeechBubble prop targetStyle, percentages of the container
  positionStyle,      \* SpeechBubble: useState({}), px once laid out
  arrowDirection,     \* SpeechBubble: useState("left")
  areaShape,          \* prop area of the geometry resolvers: its type, box, points
  highlightStyle,     \* getHighlightStyle(area), percentages of the container
  segments,           \* SegmentedTimeline: the useMemo'd segments
  progressInSegment,  \* SegmentedTimeline: the fill of each rendered segment
  videoUrl,           \* useMemo: the URL handed to the player
  createdUrls,        \* ghost: the URLs URL.createObjectURL has returned
  revokedUrls,        \* ghost: the URLs handed to URL.revokeObjectURL
  mounted,            \* ghost: the component is mounted (its effects have run)
  faulted             \* ghost: a handler or an effect has thrown

sessionVars ==
  <<hasStarted, isFinished, isPlaying, isBubbleClosing, activeStopPoint,
    activeAreaIndex, nextStopPointIndex, currentTime, duration>>

vars ==
  <<videoSource, tutorialData, hasStarted, isFinished, isPlaying, isBubbleClosing,
    activeStopPoint, activeAreaIndex, nextStopPointIndex, currentTime, duration,
    playerTime, endedQueued, timers, authored, activations, interactionLog,
    startCount, completeCount, containerRect, bubbleRect, targetStyle,
    positionStyle, arrowDirection, areaShape, highlightStyle, segments,
    progressInSegment, videoUrl, createdUrls, revokedUrls, mounted, faulted>>

layoutVars == <<containerRect, bubbleRect, targetStyle, positionStyle, arrowDirection>>

\* The life cycle of the component and of the URL it hands to the player.
lifecycleVars == <<videoUrl, createdUrls, revokedUrls, mounted, faulted>>

\* What the sequencer's handlers never touch: the bubble's layout, the resolved
\* geometry and the timeline are projections computed at render; the URL
\* changes with the props only.
viewVars ==
  <<layoutVars, areaShape, highlightStyle, segments, progressInSegment, lifecycleVars>>

Bump(n) == IF n < MaxNotify THEN n + 1 ELSE n

\* The player is rendered (videoRef.current is set) iff both props are given.
Mounted(vs, td) == vs # NoSource /\ td # NoData

\* ------------------------------------------------------------------ render
\* areas.sort((a, b) => a.order - b.order): stable, in place.
RECURSIVE InsertByOrder(_, _)
InsertByOrder(a, s) ==
  IF s = <<>> THEN <<a>>
  ELSE IF a.order < Head(s).order THEN <<a>> \o s
  ELSE <<Head(s)>> \o InsertByOrder(a, Tail(s))

\* Mutant of SortByOrder: the areas are presented as authored.
SortByOrder_AsAuthored(s) == s

RECURSIVE SortByOrder(_)
SortByOrder(s) ==
  IF s = <<>> THEN <<>>
  ELSE InsertByOrder(s[Len(s)], SortByOrder(SubSeq(s, 1, Len(s) - 1)))

\* renderTutorialOverlay: returns null without touching the data when no stop
\* point is active or the bubble is closing; otherwise sorts the active stop
\* point's areas list in place (the list is the one stored in tutorialData).
RenderedData(td, active, closing) ==
  IF active = Null \/ closing \/ active > Len(td.stopPoints) THEN td
  ELSE [td EXCEPT !.stopPoints[active].areas = SortByOrder(td.stopPoints[active].areas)]

\* The component's render after a handler: the overlay is rendered only in
\* the main tree (both props given).
Render(vs, td, active, closing) ==
  IF Mounted(vs, td) THEN RenderedData(td, active, closing) ELSE td

\* The area the overlay shows (activeArea), or Null when the overlay is null.
ActiveArea ==
  IF ~Mounted(videoSource, tutorialData) \/ activeStopPoint = Null \/ isBubbleClosing
     \/ activeStopPoint > Len(tutorialData.stopPoints)
  THEN Null
  ELSE IF activeAreaIndex + 1 \in 1..Len(tutorialData.stopPoints[activeStopPoint].areas)
  THEN activeAreaIndex + 1
  ELSE Null

\* -------------------------------------------------------------------- init
\* The state after construction and the mount effect, with both props given.
SessionInit ==
  /\ authored = tutorialData
  /\ hasStarted = FALSE
  /\ isFinished = FALSE
  /\ isPlaying = FALSE
  /\ isBubbleClosing = FALSE
  /\ activeStopPoint = Null
  /\ activeAreaIndex = 0
  /\ nextStopPointIndex = 0
  /\ currentTime = 0
  /\ duration = 0
  /\ playerTime = 0
  /\ endedQueued = FALSE
  /\ timers = <<>>
  /\ activations = <<>>
  /\ interactionLog = <<>>
  /\ startCount = 0
  /\ completeCount = 0

\* No bubble has been rendered: useState({}) and useState("left").
NoStyle == [x \in {} |-> 0]
NoRect == [width |-> 0, height |-> 0]
\* No area has been handed to the geometry resolvers.
NoArea == [type |-> "none"]

\* Nothing has been rendered yet: no bubble, no highlight, no timeline.
ProjectionInit ==
  /\ positionStyle = NoStyle
  /\ arrowDirection = "left"
  /\ areaShape = NoArea
  /\ highlightStyle = NoStyle
  /\ segments = <<>>
  /\ progressInSegment = <<>>

\* The first render has computed videoUrl; nothing has been revoked.
UrlInit ==
  /\ videoUrl = VideoUrl(videoSource, {})
  /\ createdUrls = (IF videoUrl.blob THEN {videoUrl} ELSE {})
  /\ revokedUrls = {}

\* The component has mounted and its first effects have run without a fault.
LifecycleInit ==
  /\ UrlInit
  /\ mounted = TRUE
  /\ faulted = FALSE

ViewInit ==
  /\ ProjectionInit
  /\ LifecycleInit

Init ==
  /\ videoSource \in VideoSources
  /\ tutorialData \in Tutorials
  /\ SessionInit
  /\ containerRect = NoRect
  /\ bubbleRect = NoRect
  /\ targetStyle = [left |-> 0, top |-> 0, width |-> 0, height |-> 0]
  /\ ViewInit

\* The re-render that follows a handler which leaves the props alone.
Rerender ==
  tutorialData' = Render(videoSource, tutorialData, activeStopPoint', isBubbleClosing')

\* ---------------------------------------------------------------- handlers
\* Mutant of HandleProgress: the stop point is activated without snapping the
\* player and the displayed time back to the stop's time.
HandleProgress_NoSnap(t) ==
  IF tutorialData = NoData \/ ~hasStarted \/ activeStopPoint # Null
  THEN /\ playerTime' = t
       /\ UNCHANGED <<isPlaying, currentTime, activeStopPoint, activeAreaIndex,
                      activations, interactionLog>>
  ELSE IF /\ nextStopPointIndex < Len(tutorialData.stopPoints)
          /\ t >= tutorialData.stopPoints[nextStopPointIndex + 1].time
  THEN /\ isPlaying' = FALSE
       /\ playerTime' = t
       /\ currentTime' = t
       /\ activeStopPoint' = nextStopPointIndex + 1
       /\ activeAreaIndex' = 0
       /\ activations' = Append(activations, nextStopPointIndex + 1)
       /\ interactionLog' = <<>>
  ELSE /\ playerTime' = t
       /\ currentTime' = t
       /\ UNCHANGED <<isPlaying, activeStopPoint, activeAreaIndex, activations,
                      interactionLog>>

\* Mutant of HandleProgress: the guard does not test activeStopPoint.
HandleProgress_NoActiveGuard(t) ==
  IF tutorialData = NoData \/ ~hasStarted
  THEN /\ playerTime' = t
       /\ UNCHANGED <<isPlaying, currentTime, activeStopPoint, activeAreaIndex,
                      activations, interactionLog>>
  ELSE IF /\ nextStopPointIndex < Len(tutorialData.stopPoints)
          /\ t >= tutorialData.stopPoints[nextStopPointIndex + 1].time
  THEN LET nextStop == tutorialData.stopPoints[nextStopPointIndex + 1] IN
       /\ isPlaying' = FALSE
       /\ playerTime' = nextStop.time
       /\ currentTime' = nextStop.time
       /\ activeStopPoint' = nextStopPointIndex + 1
       /\ activeAreaIndex' = 0
       /\ activations' = Append(activations, nextStopPointIndex + 1)
       /\ interactionLog' = <<>>
  ELSE /\ playerTime' = t
       /\ currentTime' = t
       /\ UNCHANGED <<isPlaying, activeStopPoint, activeAreaIndex, activations,
                      interactionLog>>

\* Mutant of HandleProgress: a cursor past the last stop point is read as the
\* last stop point, whose threshold is checked again.
HandleProgress_LastStopAgain(t) ==
  LET count == Len(tutorialData.stopPoints)
      index == IF nextStopPointIndex < count THEN nextStopPointIndex ELSE count - 1
  IN
  IF tutorialData = NoData \/ ~hasStarted \/ activeStopPoint # Null
  THEN /\ playerTime' = t
       /\ UNCHANGED <<isPlaying, currentTime, activeStopPoint, activeAreaIndex,
                      activations, interactionLog>>
  ELSE IF count > 0 /\ t >= tutorialData.stopPoints[index + 1].time
  THEN LET nextStop == tutorialData.stopPoints[index + 1] IN
       /\ isPlaying' = FALSE
       /\ playerTime' = nextStop.time
       /\ currentTime' = nextStop.time
       /\ activeStopPoint' = index + 1
       /\ activeAreaIndex' = 0
       /\ activations' = Append(activations, index + 1)
       /\ interactionLog' = <<>>
  ELSE /\ playerTime' = t
       /\ currentTime' = t
       /\ UNCHANGED <<isPlaying, activeStopPoint, activeAreaIndex, activations,
                      interactionLog>>

\* Mutant of HandleProgress: a sample that has passed several thresholds
\* activates the last stop point it passed.
HandleProgress_LastPassed(t) ==
  IF tutorialData = NoData \/ ~hasStarted \/ activeStopPoint # Null
  THEN /\ playerTime' = t
       /\ UNCHANGED <<isPlaying, currentTime, activeStopPoint, activeAreaIndex,
                      activations, interactionLog>>
  ELSE IF /\ nextStopPointIndex < Len(tutorialData.stopPoints)
          /\ t >= tutorialData.stopPoints[nextStopPointIndex + 1].time
  THEN LET passed == {k \in (nextStopPointIndex + 1)..Len(tutorialData.stopPoints) :
                        t >= tutorialData.stopPoints[k].time}
           last == CHOOSE k \in passed : \A j \in passed : j <= k
           nextStop == tutorialData.stopPoints[last]
       IN
       /\ isPlaying' = FALSE
       /\ playerTime' = nextStop.time
       /\ currentTime' = nextStop.time
       /\ activeStopPoint' = last
       /\ activeAreaIndex' = 0
       /\ activations' = Append(activations, last)
       /\ interactionLog' = <<>>
  ELSE /\ playerTime' = t
       /\ currentTime' = t
       /\ UNCHANGED <<isPlaying, activeStopPoint, activeAreaIndex, activations,
                      interactionLog>>

\* handleProgress(player), with t = player.currentTime.
HandleProgress(t) ==
  IF tutorialData = NoData \/ ~hasStarted \/ activeStopPoint # Null
  THEN /\ playerTime' = t
       /\ UNCHANGED <<isPlaying, currentTime, activeStopPoint, activeAreaIndex,
                      activations, interactionLog>>
  ELSE IF /\ nextStopPointIndex < Len(tutorialData.stopPoints)
          /\ t >= tutorialData.stopPoints[nextStopPointIndex + 1].time
  THEN LET nextStop == tutorialData.stopPoints[nextStopPointIndex + 1] IN
       /\ isPlaying' = FALSE
       /\ playerTime' = nextStop.time
       /\ currentTime' = nextStop.time
       /\ activeStopPoint' = nextStopPointIndex + 1
       /\ activeAreaIndex' = 0
       /\ activations' = Append(activations, nextStopPointIndex + 1)
       /\ interactionLog' = <<>>
  ELSE /\ playerTime' = t
       /\ currentTime' = t
       /\ UNCHANGED <<isPlaying, activeStopPoint, activeAreaIndex, activations,
                      interactionLog>>

\* handleDuration(duration).
HandleDuration(d) == duration' = d

\* Mutant of HandleStart: the session is marked started and the notification
\* fires, but playback is not begun.
HandleStart_NoPlay ==
  /\ hasStarted' = TRUE
  /\ UNCHANGED isPlaying
  /\ startCount' = Bump(startCount)

\* handleStart.
HandleStart ==
  /\ hasStarted' = TRUE
  /\ isPlaying' = TRUE
  /\ startCount' = Bump(startCount)

\* Mutant of HandleVideoEnded: currentTime is not pinned to duration.
HandleVideoEnded_NoPin ==
  /\ isFinished' = TRUE
  /\ isPlaying' = FALSE
  /\ UNCHANGED currentTime
  /\ completeCount' = Bump(completeCount)

\* handleVideoEnded.
HandleVideoEnded ==
  /\ isFinished' = TRUE
  /\ isPlaying' = FALSE
  /\ currentTime' = (IF duration > 0 THEN duration ELSE currentTime)
  /\ completeCount' = Bump(completeCount)

\* Mutant of HandleNextInteraction: the guard does not test isBubbleClosing.
HandleNextInteraction_NoClosingGuard ==
  IF activeStopPoint = Null
  THEN UNCHANGED <<isBubbleClosing, timers, interactionLog>>
  ELSE /\ interactionLog' = Append(interactionLog, <<activeStopPoint, activeAreaIndex>>)
       /\ isBubbleClosing' = TRUE
       /\ timers' = Append(timers,
            [activeStopPoint |-> tutorialData.stopPoints[activeStopPoint],
             activeAreaIndex |-> activeAreaIndex,
             stale |-> FALSE])

\* Mutant of HandleNextInteraction: the notification carries the index of
\* the area being entered instead of the one being left.
HandleNextInteraction_NotifyEntered ==
  IF activeStopPoint = Null \/ isBubbleClosing
  THEN UNCHANGED <<isBubbleClosing, timers, interactionLog>>
  ELSE /\ interactionLog' = Append(interactionLog, <<activeStopPoint, activeAreaIndex + 1>>)
       /\ isBubbleClosing' = TRUE
       /\ timers' = Append(timers,
            [activeStopPoint |-> tutorialData.stopPoints[activeStopPoint],
             activeAreaIndex |-> activeAreaIndex,
             stale |-> FALSE])

\* handleNextInteraction, up to the setTimeout call; the callback closes over
\* activeStopPoint and activeAreaIndex of this render (stale is a ghost field:
\* the callback was scheduled before the last reset).
HandleNextInteraction ==
  IF activeStopPoint = Null \/ isBubbleClosing
  THEN UNCHANGED <<isBubbleClosing, timers, interactionLog>>
  ELSE /\ interactionLog' = Append(interactionLog, <<activeStopPoint, activeAreaIndex>>)
       /\ isBubbleClosing' = TRUE
       /\ timers' = Append(timers,
            [activeStopPoint |-> tutorialData.stopPoints[activeStopPoint],
             activeAreaIndex |-> activeAreaIndex,
             stale |-> FALSE])

\* Mutant of SettleCallback: the cursor advances at every settle step.
SettleCallback_AlwaysAdvance(cb) ==
  LET nextAreaIndex == cb.activeAreaIndex + 1 IN
  IF nextAreaIndex < Len(cb.activeStopPoint.areas)
  THEN /\ activeAreaIndex' = nextAreaIndex
       /\ nextStopPointIndex' = nextStopPointIndex + 1
       /\ isBubbleClosing' = FALSE
       /\ UNCHANGED <<activeStopPoint, isPlaying>>
  ELSE /\ activeStopPoint' = Null
       /\ nextStopPointIndex' = nextStopPointIndex + 1
       /\ isBubbleClosing' = FALSE
       /\ isPlaying' = TRUE
       /\ UNCHANGED activeAreaIndex

\* Mutant of SettleCallback: after the final area the stop point is cleared
\* and the cursor advanced, but playback is resumed at every settle step.
SettleCallback_ResumeEarly(cb) ==
  LET nextAreaIndex == cb.activeAreaIndex + 1 IN
  IF nextAreaIndex < Len(cb.activeStopPoint.areas)
  THEN /\ activeAreaIndex' = nextAreaIndex
       /\ isBubbleClosing' = FALSE
       /\ isPlaying' = TRUE
       /\ UNCHANGED <<activeStopPoint, nextStopPointIndex>>
  ELSE /\ activeStopPoint' = Null
       /\ nextStopPointIndex' = nextStopPointIndex + 1
       /\ isBubbleClosing' = FALSE
       /\ isPlaying' = TRUE
       /\ UNCHANGED activeAreaIndex

\* Mutant of SettleCallback: moving on to the next area of the stop point
\* leaves the closing flag set.
SettleCallback_KeepClosing(cb) ==
  LET nextAreaIndex == cb.activeAreaIndex + 1 IN
  IF nextAreaIndex < Len(cb.activeStopPoint.areas)
  THEN /\ activeAreaIndex' = nextAreaIndex
       /\ UNCHANGED <<activeStopPoint, nextStopPointIndex, isPlaying, isBubbleClosing>>
  ELSE /\ activeStopPoint' = Null
       /\ nextStopPointIndex' = nextStopPointIndex + 1
       /\ isBubbleClosing' = FALSE
       /\ isPlaying' = TRUE
       /\ UNCHANGED activeAreaIndex

\* The setTimeout callback of handleNextInteraction, cb its closure.
SettleCallback(cb) ==
  LET nextAreaIndex == cb.activeAreaIndex + 1 IN
  IF nextAreaIndex < Len(cb.activeStopPoint.areas)
  THEN /\ activeAreaIndex' = nextAreaIndex
       /\ isBubbleClosing' = FALSE
       /\ UNCHANGED <<activeStopPoint, nextStopPointIndex, isPlaying>>
  ELSE /\ activeStopPoint' = Null
       /\ nextStopPointIndex' = nextStopPointIndex + 1
       /\ isBubbleClosing' = FALSE
       /\ isPlaying' = TRUE
       /\ UNCHANGED activeAreaIndex

\* handleReplay; refSet is whether videoRef.current is set when it runs.
HandleReplay(refSet) ==
  IF refSet
  THEN /\ playerTime' = 0
       /\ currentTime' = 0
       /\ nextStopPointIndex' = 0
       /\ isFinished' = FALSE
       /\ activeStopPoint' = Null
       /\ hasStarted' = FALSE
       /\ isPlaying' = FALSE
       /\ activations' = <<>>
       /\ interactionLog' = <<>>
       /\ startCount' = 0
       /\ completeCount' = 0
  ELSE /\ UNCHANGED <<playerTime, currentTime, nextStopPointIndex, isFinished, activeStopPoint,
                       hasStarted, isPlaying, activations, interactionLog,
                       startCount, completeCount>>

\* ------------------------------------------------------------------ events
\* Where the playback surface can be when it reports its time: it advances
\* only while `playing` is set and its metadata (duration) has been reported.
PlayerAdvance ==
  IF isPlaying /\ duration = VideoDuration
  THEN playerTime..VideoDuration
  ELSE {playerTime}

\* onTimeUpdate with the surface at time t; reaching the end of the video by
\* playing also queues its `ended` event.
TimeUpdateAt(t) ==
  /\ Mounted(videoSource, tutorialData)
  /\ t \in PlayerAdvance
  /\ endedQueued' = (endedQueued \/ (playerTime < VideoDuration /\ t = VideoDuration))
  /\ HandleProgress(t)
  /\ UNCHANGED <<viewVars, videoSource, hasStarted, isFinished, isBubbleClosing, nextStopPointIndex,
                 duration, timers, authored, startCount, completeCount>>
  /\ Rerender

TimeUpdate == \E t \in 0..VideoDuration : TimeUpdateAt(t)

\* onDurationChange: the surface reports the video's duration.
DurationChange ==
  /\ Mounted(videoSource, tutorialData)
  /\ duration # VideoDuration
  /\ HandleDuration(VideoDuration)
  /\ UNCHANGED <<viewVars, videoSource, hasStarted, isFinished, isPlaying, isBubbleClosing,
                 activeStopPoint, activeAreaIndex, nextStopPointIndex, currentTime,
                 playerTime, endedQueued, timers, authored, activations,
                 interactionLog, startCount, completeCount>>
  /\ Rerender

\* onEnded: the queued `ended` event is delivered.
Ended ==
  /\ Mounted(videoSource, tutorialData)
  /\ endedQueued
  /\ endedQueued' = FALSE
  /\ HandleVideoEnded
  /\ UNCHANGED <<viewVars, videoSource, hasStarted, isBubbleClosing, activeStopPoint,
                 activeAreaIndex, nextStopPointIndex, duration, playerTime, timers,
                 authored, activations, interactionLog, startCount>>
  /\ Rerender

\* Click on the start button, rendered while !hasStarted && !isFinished.
ClickStart ==
  /\ Mounted(videoSource, tutorialData)
  /\ ~hasStarted /\ ~isFinished
  /\ HandleStart
  /\ UNCHANGED <<viewVars, videoSource, isFinished, isBubbleClosing, activeStopPoint,
                 activeAreaIndex, nextStopPointIndex, currentTime, duration,
                 playerTime, endedQueued, timers, authored, activations,
                 interactionLog, completeCount>>
  /\ Rerender

\* What an acknowledgment leaves alone.
AckFrame ==
  UNCHANGED <<viewVars, videoSource, hasStarted, isFinished, isPlaying, activeStopPoint,
              activeAreaIndex, nextStopPointIndex, currentTime, duration,
              playerTime, endedQueued, authored, activations, startCount,
              completeCount>>

Controls == {"continue", "highlight", "overlay"}

\* Mutant of Wired: every control calls handleNextInteraction.
Wired_Always(c, a) == TRUE

\* Whether control c of the rendered overlay calls handleNextInteraction: the
\* Continue button exists only with hasNextButton; the highlight and the
\* overlay background call it only without.
Wired(c, area) ==
  IF c = "continue" THEN area.hasNextButton ELSE ~area.hasNextButton

\* A click on a control of the rendered overlay.
Click(c) ==
  /\ ActiveArea # Null
  /\ IF Wired(c, tutorialData.stopPoints[activeStopPoint].areas[ActiveArea])
     THEN HandleNextInteraction
     ELSE UNCHANGED <<isBubbleClosing, timers, interactionLog>>
  /\ AckFrame
  /\ Rerender

\* An acknowledgment that reaches handleNextInteraction while no area is
\* shown for it (no stop point active, or the bubble closing).
LateAcknowledge ==
  /\ Mounted(videoSource, tutorialData)
  /\ activeStopPoint = Null \/ isBubbleClosing
  /\ HandleNextInteraction
  /\ AckFrame
  /\ Rerender

\* The settle delay of the oldest pending acknowledgment elapses.
SettleTimeout ==
  /\ timers # <<>>
  /\ SettleCallback(Head(timers))
  /\ timers' = Tail(timers)
  /\ UNCHANGED <<viewVars, videoSource, hasStarted, isFinished, currentTime, duration, playerTime,
                 endedQueued, authored, activations, interactionLog, startCount,
                 completeCount>>
  /\ Rerender

\* Ghost: a reset marks the callbacks still pending as stale.
MarkStale(ts, reset) ==
  IF reset THEN [i \in 1..Len(ts) |-> [ts[i] EXCEPT !.stale = TRUE]] ELSE ts

\* Click on the replay button of the completion overlay.
ClickReplay ==
  /\ Mounted(videoSource, tutorialData)
  /\ isFinished
  /\ HandleReplay(TRUE)
  /\ timers' = MarkStale(timers, TRUE)
  /\ UNCHANGED <<viewVars, videoSource, isBubbleClosing, activeAreaIndex, duration, endedQueued,
                 authored>>
  /\ Rerender

\* The reset effect on [videoSource, tutorialData], after a render with the
\* new props vs, td: handleReplay runs with the ref of that render.
ResetEffect(vs, td) ==
  /\ HandleReplay(Mounted(vs, td))
  /\ timers' = MarkStale(timers, Mounted(vs, td))
  /\ UNCHANGED <<viewVars, isBubbleClosing, activeAreaIndex, duration>>
  /\ tutorialData' = Render(vs, td, activeStopPoint', isBubbleClosing')

\* The same effect in a render that also computes a new videoUrl.
ResetSession(vs, td) ==
  /\ HandleReplay(Mounted(vs, td))
  /\ timers' = MarkStale(timers, Mounted(vs, td))
  /\ UNCHANGED <<isBubbleClosing, activeAreaIndex, duration>>
  /\ tutorialData' = Render(vs, td, activeStopPoint', isBubbleClosing')

\* The render after videoSource has changed to vs: useMemo computes the new
\* videoUrl, then the cleanup of the previous render's revoke effect runs
\* with that render's videoUrl and videoSource. The record then drops the
\* object URLs that are both revoked and superseded: nothing refers to them.
UrlStep(vs) ==
  LET url == VideoUrl(vs, createdUrls)
      created == createdUrls \cup (IF url.blob THEN {url} ELSE {})
      revoked == revokedUrls \cup RevokeCleanup(videoUrl, videoSource)
      released == {u \in created \cap revoked : u.blob /\ u # url}
  IN /\ videoUrl' = url
     /\ createdUrls' = created \ released
     /\ revokedUrls' = revoked \ released

\* A render with another videoSource vs (the tutorialData object is kept): the
\* memo, the revoke effect's cleanup, the reset effect; the surface drops
\* the events of the source it leaves.
SourceChangeTo(vs) ==
  /\ videoSource' = vs
  /\ endedQueued' = FALSE
  /\ UNCHANGED authored
  /\ ResetSession(vs, tutorialData)
  /\ UrlStep(vs)
  /\ UNCHANGED <<layoutVars, areaShape, highlightStyle, segments,
                 progressInSegment, mounted, faulted>>

\* The host passes another videoSource.
ChangeVideoSource ==
  \E vs \in (VideoSources \cup {NoSource}) \ {videoSource} : SourceChangeTo(vs)

\* The host passes another tutorialData object.
ChangeTutorialData ==
  \E td \in Tutorials \cup {NoData} :
    /\ td # NoData \/ tutorialData # NoData
    /\ authored' = td
    /\ endedQueued' = (endedQueued /\ Mounted(videoSource, td))
    /\ UNCHANGED videoSource
    /\ ResetEffect(videoSource, td)

Next ==
  \/ TimeUpdate
  \/ DurationChange
  \/ Ended
  \/ ClickStart
  \/ \E c \in Controls : Click(c)
  \/ LateAcknowledge
  \/ SettleTimeout
  \/ ClickReplay
  \/ ChangeVideoSource
  \/ ChangeTutorialData

Spec == Init /\ [][Next]_vars

\* The sequencer with its timers firing: a callback handed to setTimeout runs
\* once its delay has elapsed, nothing cancels it.
SpecSettle == Spec /\ WF_vars(SettleTimeout)

\* ------------------------------------------------------------- one session
\* Well-formed tutorial data whose stop points all lie before the end of the
\* video: every stop point has an area, the times increase strictly.
WellFormed(td) ==
  /\ td # NoData
  /\ \A i \in 1..Len(td.stopPoints) :
       /\ td.stopPoints[i].areas # <<>>
       /\ td.stopPoints[i].time < VideoDuration
       /\ i > 1 => td.stopPoints[i - 1].time < td.stopPoints[i].time

InitSession ==
  /\ Init
  /\ WellFormed(tutorialData)

\* A time update that finds the surface further on.
TimeProgress ==
  \E t \in 0..VideoDuration : t > playerTime /\ TimeUpdateAt(t)

\* A click on the control of the shown area that acknowledges it.
Acknowledge ==
  \E c \in Controls :
    /\ ActiveArea # Null
    /\ Wired(c, tutorialData.stopPoints[activeStopPoint].areas[ActiveArea])
    /\ Click(c)

\* The steps of one session: no replay, no change of props.
NextSession ==
  \/ TimeUpdate
  \/ DurationChange
  \/ Ended
  \/ ClickStart
  \/ \E c \in Controls : Click(c)
  \/ LateAcknowledge
  \/ SettleTimeout

\* One session in which the surface reports its duration, keeps playing
\* while `playing` is set and delivers `ended`, the user acknowledges every
\* shown area and every settle callback fires.
SpecSession ==
  /\ InitSession
  /\ [][NextSession]_vars
  /\ WF_vars(DurationChange)
  /\ WF_vars(TimeProgress)
  /\ WF_vars(Ended)
  /\ WF_vars(Acknowledge)
  /\ WF_vars(SettleTimeout)

\* ------------------------------------------------------ bubble placement
\* Inputs of the placement: container sides 40k px and target percentages in
\* multiples of 25 make every pixel value a multiple of 10, and bubble sides
\* are multiples of 10, so the halvings below are exact.
ContainerSides == {40 * k : k \in 1..MaxContainerUnits}
BubbleSides == {10 * j : j \in 1..MaxBubbleUnits}
TargetPercents == {0, 25, 50, 75, 100}

\* Target rectangles lying inside the container.
TargetStyles ==
  {ts \in [left : TargetPercents, top : TargetPercents,
           width : TargetPercents, height : TargetPercents] :
     ts.left + ts.width <= 100 /\ ts.top + ts.height <= 100}

Max(a, b) == IF a >= b THEN a ELSE b
Min(a, b) == IF a <= b THEN a ELSE b

\* (parseFloat(percent) / 100) * containerSide.
ToPx(percent, side) == (percent * side) \div 100

\* Math.max(0, Math.min(containerSide - bubbleSide, center - bubbleSide / 2)).
Centered(center, bubbleSide, containerSide) ==
  Max(0, Min(containerSide - bubbleSide, center - bubbleSide \div 2))

\* const gap = 10.
gap == 10

\* Mutant of PlaceBubble: when neither side has room the bubble goes below
\* the target even if there is room above.
PlaceBubble_BelowFirst(container, bubble, target) ==
  LET containerWidth == container.width
      containerHeight == container.height
      bubbleWidth == bubble.width
      bubbleHeight == bubble.height
      targetPx == [left |-> ToPx(target.left, containerWidth),
                   top |-> ToPx(target.top, containerHeight),
                   width |-> ToPx(target.width, containerWidth),
                   height |-> ToPx(target.height, containerHeight)]
      targetCenterX == targetPx.left + targetPx.width \div 2
      targetCenterY == targetPx.top + targetPx.height \div 2
      spaceOnRight == containerWidth - (targetPx.left + targetPx.width + gap)
      spaceOnLeft == targetPx.left - gap
      isTargetOnRightHalf == 2 * targetCenterX > containerWidth
      besideTop == Centered(targetCenterY, bubbleHeight, containerHeight)
      stackedLeft == Centered(targetCenterX, bubbleWidth, containerWidth)
      onLeft == [left |-> spaceOnLeft - gap - bubbleWidth, top |-> besideTop,
                 direction |-> "left"]
      onRight == [left |-> targetPx.left + targetPx.width + gap, top |-> besideTop,
                  direction |-> "right"]
  IN
  IF isTargetOnRightHalf /\ spaceOnLeft >= bubbleWidth THEN onLeft
  ELSE IF ~isTargetOnRightHalf /\ spaceOnRight >= bubbleWidth THEN onRight
  ELSE IF spaceOnRight >= bubbleWidth THEN onRight
  ELSE IF spaceOnLeft >= bubbleWidth THEN onLeft
  ELSE IF targetPx.top - gap - bubbleHeight < 0
  THEN [left |-> stackedLeft, top |-> targetPx.top - gap - bubbleHeight,
        direction |-> "bottom"]
  ELSE [left |-> stackedLeft, top |-> targetPx.top + targetPx.height + gap,
        direction |-> "top"]

\* The body of SpeechBubble's useLayoutEffect: finalLeft, finalTop and
\* finalDirection for a container, a measured bubble and a target.
PlaceBubble(container, bubble, target) ==
  LET containerWidth == container.width
      containerHeight == container.height
      bubbleWidth == bubble.width
      bubbleHeight == bubble.height
      targetPx == [left |-> ToPx(target.left, containerWidth),
                   top |-> ToPx(target.top, containerHeight),
                   width |-> ToPx(target.width, containerWidth),
                   height |-> ToPx(target.height, containerHeight)]
      targetCenterX == targetPx.left + targetPx.width \div 2
      targetCenterY == targetPx.top + targetPx.height \div 2
      spaceOnRight == containerWidth - (targetPx.left + targetPx.width + gap)
      spaceOnLeft == targetPx.left - gap
      isTargetOnRightHalf == 2 * targetCenterX > containerWidth
      besideTop == Centered(targetCenterY, bubbleHeight, containerHeight)
      stackedLeft == Centered(targetCenterX, bubbleWidth, containerWidth)
      onLeft == [left |-> spaceOnLeft - gap - bubbleWidth, top |-> besideTop,
                 direction |-> "left"]
      onRight == [left |-> targetPx.left + targetPx.width + gap, top |-> besideTop,
                  direction |-> "right"]
  IN
  IF isTargetOnRightHalf /\ spaceOnLeft >= bubbleWidth THEN onLeft
  ELSE IF ~isTargetOnRightHalf /\ spaceOnRight >= bubbleWidth THEN onRight
  ELSE IF spaceOnRight >= bubbleWidth THEN onRight
  ELSE IF spaceOnLeft >= bubbleWidth THEN onLeft
  ELSE IF targetPx.top - gap - bubbleHeight >= 0
  THEN [left |-> stackedLeft, top |-> targetPx.top - gap - bubbleHeight,
        direction |-> "bottom"]
  ELSE [left |-> stackedLeft, top |-> targetPx.top + targetPx.height + gap,
        direction |-> "top"]

\* The layout effect: setPositionStyle and setArrowDirection.
LayoutEffect(container, bubble, target) ==
  LET final == PlaceBubble(container, bubble, target) IN
  /\ positionStyle' = [left |-> final.left, top |-> final.top]
  /\ arrowDirection' = final.direction

\* What a layout step of the bubble leaves alone besides the sequencer.
projectionVars ==
  <<areaShape, highlightStyle, segments, progressInSegment, lifecycleVars>>

sequencerVars ==
  <<videoSource, tutorialData, hasStarted, isFinished, isPlaying, isBubbleClosing,
    activeStopPoint, activeAreaIndex, nextStopPointIndex, currentTime, duration,
    playerTime, endedQueued, timers, authored, activations, interactionLog,
    startCount, completeCount>>

\* A bubble rendered for the first time, not yet laid out, over an idle session.
InitBubble ==
  /\ videoSource = "url"
  /\ tutorialData = TutorialJsonData(<<StopPoint(1, <<Area(1, TRUE)>>)>>)
  /\ SessionInit
  /\ containerRect \in [width : ContainerSides, height : ContainerSides]
  /\ bubbleRect \in [width : BubbleSides, height : BubbleSides]
  /\ targetStyle \in TargetStyles
  /\ ViewInit

\* The layout effect runs after the first render of the bubble.
BubbleLayout ==
  /\ positionStyle = NoStyle
  /\ LayoutEffect(containerRect, bubbleRect, targetStyle)
  /\ UNCHANGED <<sequencerVars, projectionVars, containerRect, bubbleRect, targetStyle>>

\* The target changes (dependency targetStyle): the effect runs again.
BubbleTargetChange ==
  \E ts \in TargetStyles \ {targetStyle} :
    /\ positionStyle # NoStyle
    /\ targetStyle' = ts
    /\ LayoutEffect(containerRect, bubbleRect, ts)
    /\ UNCHANGED <<sequencerVars, projectionVars, containerRect, bubbleRect>>

\* The text changes (dependency text), and with it the measured size.
BubbleTextChange ==
  \E b \in [width : BubbleSides, height : BubbleSides] \ {bubbleRect} :
    /\ positionStyle # NoStyle
    /\ bubbleRect' = b
    /\ LayoutEffect(containerRect, b, targetStyle)
    /\ UNCHANGED <<sequencerVars, projectionVars, containerRect, targetStyle>>

NextBubble == BubbleLayout \/ BubbleTargetChange \/ BubbleTextChange

SpecBubble == InitBubble /\ [][NextBubble]_vars

\* ------------------------------------------------------ geometry resolvers
\* Coordinates of a box or a point are fractions of the container; the inputs
\* lie on the quarter grid and a coordinate is written as its number of
\* quarters q (the fraction q/4). Percentages are plain numbers: the strings
\* "25%" and "0px" are read back by parseFloat as 25 and 0.
Quarters == 0..4

\* `${x * 100}` for the fraction x = q/4.
Percent(q) == (q * 100) \div 4

\* BoundingBox values inside the container.
Boxes ==
  {b \in [x : Quarters, y : Quarters, width : Quarters, height : Quarters] :
     b.x + b.width <= 4 /\ b.y + b.height <= 4}

\* Point values: the corners, edge midpoints and centre of the container.
Points == [x : {0, 2, 4}, y : {0, 2, 4}]

\* points.reduce((acc, p) => ({x: acc.x + p.x, y: acc.y + p.y}), {x: 0, y: 0}).
RECURSIVE SumPoints(_)
SumPoints(ps) ==
  IF ps = <<>> THEN [x |-> 0, y |-> 0]
  ELSE LET acc == SumPoints(SubSeq(ps, 1, Len(ps) - 1))
           p == ps[Len(ps)]
       IN [x |-> acc.x + p.x, y |-> acc.y + p.y]

\* The 4-point lists drawn as inputs: those whose centroid lies on the
\* quarter grid, so that every percentage computed from them is an integer.
Polygons ==
  {ps \in [1..4 -> Points] : SumPoints(ps).x % 4 = 0 /\ SumPoints(ps).y % 4 = 0}

\* Point lists that do not have exactly 4 points: none, 3 or 5 of them.
ShortPolygons == {<<>>} \cup [1..3 -> Points]
LongPolygons == {Append(ps, ps[1]) : ps \in Polygons}

\* The areas handed to the resolvers, as far as the resolvers read them: a
\* missing box or point list is a record without that field.
AreaShapes ==
  {[type |-> t, box |-> b] : t \in {"box", "oval"}, b \in Boxes}
  \cup {[type |-> t] : t \in {"box", "oval", "polygon"}}
  \cup {[type |-> "polygon", points |-> ps] : ps \in Polygons \cup ShortPolygons \cup LongPolygons}

MinOf(S) == CHOOSE m \in S : \A n \in S : m <= n
MaxOf(S) == CHOOSE m \in S : \A n \in S : m >= n

\* getHighlightStyle(area); {} is the style with no property set.
GetHighlightStyle(a) ==
  CASE a.type \in {"box", "oval"} ->
         IF "box" \notin DOMAIN a THEN NoStyle
         ELSE [left |-> Percent(a.box.x), top |-> Percent(a.box.y),
               width |-> Percent(a.box.width), height |-> Percent(a.box.height)]
    [] a.type = "polygon" ->
         IF "points" \notin DOMAIN a \/ Len(a.points) # 4 THEN NoStyle
         ELSE LET xs == {a.points[i].x : i \in 1..Len(a.points)}
                  ys == {a.points[i].y : i \in 1..Len(a.points)}
              IN [left |-> Percent(MinOf(xs)), top |-> Percent(MinOf(ys)),
                  width |-> Percent(MaxOf(xs) - MinOf(xs)),
                  height |-> Percent(MaxOf(ys) - MinOf(ys))]
    [] OTHER -> NoStyle

\* { left: "0px", top: "0px", width: "0px", height: "0px" }.
ZeroRect == [left |-> 0, top |-> 0, width |-> 0, height |-> 0]

\* typeof style.f === "string" ? style.f : "0px".
StringOrZero(style, f) == IF f \in DOMAIN style THEN style[f] ELSE 0

\* Mutant of GetSpeechBubbleTargetStyle: a polygon's target is its bounding
\* rectangle instead of its centroid.
GetSpeechBubbleTargetStyle_Rect(a) ==
  LET style == GetHighlightStyle(a) IN
  [left |-> StringOrZero(style, "left"), top |-> StringOrZero(style, "top"),
   width |-> StringOrZero(style, "width"), height |-> StringOrZero(style, "height")]

\* getSpeechBubbleTargetStyle(area).
GetSpeechBubbleTargetStyle(a) ==
  CASE a.type \in {"box", "oval"} ->
         LET style == GetHighlightStyle(a) IN
         [left |-> StringOrZero(style, "left"), top |-> StringOrZero(style, "top"),
          width |-> StringOrZero(style, "width"), height |-> StringOrZero(style, "height")]
    [] a.type = "polygon" ->
         IF "points" \notin DOMAIN a \/ Len(a.points) # 4 THEN ZeroRect
         ELSE LET sum == SumPoints(a.points)
                  centroid == [x |-> sum.x \div Len(a.points),
                               y |-> sum.y \div Len(a.points)]
              IN [left |-> Percent(centroid.x), top |-> Percent(centroid.y),
                  width |-> 0, height |-> 0]
    [] OTHER -> ZeroRect

\* Square containers and bubbles of the overlay the resolvers feed.
SquareRects(sides) == {[width |-> side, height |-> side] : side \in sides}

\* An area is about to be shown over an idle session: nothing resolved yet,
\* no bubble rendered (no targetStyle prop).
InitGeometry ==
  /\ videoSource = "url"
  /\ tutorialData = TutorialJsonData(<<StopPoint(1, <<Area(1, TRUE)>>)>>)
  /\ SessionInit
  /\ containerRect \in SquareRects(ContainerSides)
  /\ bubbleRect \in SquareRects(BubbleSides)
  /\ targetStyle = NoStyle
  /\ positionStyle = NoStyle
  /\ arrowDirection = "left"
  /\ areaShape \in AreaShapes
  /\ highlightStyle = NoStyle
  /\ segments = <<>>
  /\ progressInSegment = <<>>
  /\ LifecycleInit

\* renderTutorialOverlay resolves the geometry of the area it shows: the
\* highlight's style and the bubble's target.
ResolveGeometry ==
  /\ targetStyle = NoStyle
  /\ highlightStyle' = GetHighlightStyle(areaShape)
  /\ targetStyle' = GetSpeechBubbleTargetStyle(areaShape)
  /\ UNCHANGED <<sequencerVars, containerRect, bubbleRect, positionStyle,
                 arrowDirection, areaShape, segments, progressInSegment,
                 lifecycleVars>>

\* The bubble's layout effect runs against the resolved target.
OverlayLayout ==
  /\ targetStyle # NoStyle
  /\ BubbleLayout

NextGeometry == ResolveGeometry \/ OverlayLayout

SpecGeometry == InitGeometry /\ [][NextGeometry]_vars

\* ---------------------------------------------------------------- timeline
\* The segments after the forEach has visited the first k stop points:
\* newSegments.push({ start: lastTime, end: stopPoint.time }).
RECURSIVE NewSegments(_, _)
NewSegments(stopPoints, k) ==
  IF k = 0 THEN <<>>
  ELSE Append(NewSegments(stopPoints, k - 1),
              [start |-> IF k = 1 THEN 0 ELSE stopPoints[k - 1].time,
               end |-> stopPoints[k].time])

\* Mutant of Segments: no trailing segment is pushed.
Segments_NoTrailing(stopPoints, d) == NewSegments(stopPoints, Len(stopPoints))

\* The useMemo of SegmentedTimeline: the forEach, then the trailing segment
\* if (lastTime < duration).
Segments(stopPoints, d) ==
  LET lastTime == IF stopPoints = <<>> THEN 0 ELSE stopPoints[Len(stopPoints)].time
      newSegments == NewSegments(stopPoints, Len(stopPoints))
  IN IF lastTime < d
     THEN Append(newSegments, [start |-> lastTime, end |-> d])
     ELSE newSegments

\* What SegmentedTimeline renders: nothing (no segments) while duration is 0.
SegmentedTimeline(d, stopPoints) ==
  IF d = 0 THEN <<>> ELSE Segments(stopPoints, d)

\* segmentWidth = (segmentDuration / duration) * 100, as the exact fraction
\* num / den of a percent.
SegmentWidth(segment, d) ==
  LET segmentDuration == segment.end - segment.start
  IN [num |-> segmentDuration * 100, den |-> d]

\* Mutant of ProgressInSegment: the interpolation starts at the start of the
\* video instead of the start of the segment.
ProgressInSegment_FromZero(segment, ct) ==
  IF ct >= segment.end THEN [num |-> 100, den |-> 1]
  ELSE IF ct > segment.start
       THEN [num |-> ct * 100, den |-> segment.end]
       ELSE [num |-> 0, den |-> 1]

\* progressInSegment of one segment at currentTime ct, as the exact fraction
\* num / den of a percent: 100 at or past the end, else interpolated past the
\* start, else the initial 0.
ProgressInSegment(segment, ct) ==
  LET segmentDuration == segment.end - segment.start
  IN IF ct >= segment.end THEN [num |-> 100, den |-> 1]
     ELSE IF ct > segment.start
          THEN [num |-> (ct - segment.start) * 100, den |-> segmentDuration]
          ELSE [num |-> 0, den |-> 1]

\* The fills the timeline renders: one per segment, in order.
RenderProgress(segs, ct) ==
  [i \in 1..Len(segs) |-> ProgressInSegment(segs[i], ct)]

\* The strictly increasing sequence of the times in S.
Ascending(S) ==
  CHOOSE ts \in [1..Cardinality(S) -> S] :
    \A i, j \in 1..Cardinality(S) : i < j => ts[i] < ts[j]

\* The tutorials the timeline is drawn for: every set of stop times from 0 up
\* to just past the end of the video, one area per stop point.
TimelineTutorials ==
  {TutorialJsonData([i \in 1..Cardinality(S) |->
                       StopPoint(Ascending(S)[i], <<Area(1, TRUE)>>)])
     : S \in SUBSET (0..(VideoDuration + 1))}

\* The component has mounted; the timeline is rendered with duration 0.
InitTimeline ==
  /\ videoSource = "url"
  /\ tutorialData \in TimelineTutorials
  /\ SessionInit
  /\ containerRect = NoRect
  /\ bubbleRect = NoRect
  /\ targetStyle = ZeroRect
  /\ ViewInit

\* onDurationChange with duration d: the timeline is rendered again.
TimelineDurationChange ==
  \E d \in (1..(VideoDuration + 1)) \ {duration} :
    /\ HandleDuration(d)
    /\ segments' = SegmentedTimeline(d, tutorialData.stopPoints)
    /\ progressInSegment' = RenderProgress(segments', currentTime)
    /\ UNCHANGED <<videoSource, tutorialData, hasStarted, isFinished, isPlaying,
                   isBubbleClosing, activeStopPoint, activeAreaIndex,
                   nextStopPointIndex, currentTime, playerTime, endedQueued, timers, authored,
                   activations, interactionLog, startCount, completeCount,
                   layoutVars, areaShape, highlightStyle, lifecycleVars>>

\* The displayed time changes; segments is memoized on [stopPoints, duration].
TimelineTimeChange ==
  \E t \in (0..duration) \ {currentTime} :
    /\ currentTime' = t
    /\ progressInSegment' = RenderProgress(segments, t)
    /\ UNCHANGED <<videoSource, tutorialData, hasStarted, isFinished, isPlaying,
                   isBubbleClosing, activeStopPoint, activeAreaIndex,
                   nextStopPointIndex, duration, playerTime, endedQueued, timers,
                   authored, activations, interactionLog, startCount,
                   completeCount, layoutVars, areaShape, highlightStyle, segments,
                   lifecycleVars>>

NextTimeline == TimelineDurationChange \/ TimelineTimeChange

SpecTimeline == InitTimeline /\ [][NextTimeline]_vars

\* ---------------------------------------------------------------- video URL
\* The component has mounted with any source, given or missing.
InitSource ==
  /\ videoSource \in SourceInputs
  /\ tutorialData \in Tutorials \cup {NoData}
  /\ SessionInit
  /\ containerRect = NoRect
  /\ bubbleRect = NoRect
  /\ targetStyle = ZeroRect
  /\ ViewInit

\* The host passes another videoSource, a string, a File or none.
SourceChange ==
  \E vs \in SourceInputs \ {videoSource} :
    /\ mounted
    /\ SourceChangeTo(vs)

\* The host passes another tutorialData: videoUrl is memoized on [videoSource]
\* and the revoke effect's dependencies are unchanged.
SourceDataChange ==
  /\ mounted
  /\ ChangeTutorialData

\* The component is unmounted: the revoke effect's cleanup runs.
Unmount ==
  /\ mounted
  /\ mounted' = FALSE
  /\ revokedUrls' = revokedUrls \cup RevokeCleanup(videoUrl, videoSource)
  /\ UNCHANGED <<sequencerVars, layoutVars, areaShape, highlightStyle, segments,
                 progressInSegment, videoUrl, createdUrls, faulted>>

NextSource == SourceChange \/ SourceDataChange \/ Unmount

SpecSource == InitSource /\ [][NextSource]_vars

\* -------------------------------------------------------------- second copy
\* handleReplay of the second copy of the component: videoRef.current! is
\* dereferenced without a test, so with no playback surface the first
\* statement throws and nothing is reset.
HandleReplay_SecondCopy(refSet) ==
  /\ faulted' = (faulted \/ ~refSet)
  /\ HandleReplay(refSet)

\* The reset effect of the second copy after a render with the props vs, td.
ResetSession_SecondCopy(vs, td) ==
  /\ HandleReplay_SecondCopy(Mounted(vs, td))
  /\ timers' = MarkStale(timers, Mounted(vs, td))
  /\ UNCHANGED <<isBubbleClosing, activeAreaIndex, duration>>
  /\ tutorialData' = Render(vs, td, activeStopPoint', isBubbleClosing')

\* The second copy has rendered for the first time, with any props, given or
\* missing; its effects have not run yet.
InitSecondCopy ==
  /\ videoSource \in VideoSources \cup {NoSource}
  /\ tutorialData \in Tutorials \cup {NoData}
  /\ SessionInit
  /\ containerRect = NoRect
  /\ bubbleRect = NoRect
  /\ targetStyle = ZeroRect
  /\ ProjectionInit
  /\ UrlInit
  /\ mounted = FALSE
  /\ faulted = FALSE

\* The effects run after the first render: the reset effect calls
\* handleReplay.
SecondCopyMount ==
  /\ ~mounted
  /\ ~faulted
  /\ mounted' = TRUE
  /\ ResetSession_SecondCopy(videoSource, tutorialData)
  /\ UNCHANGED <<videoSource, authored, endedQueued, layoutVars, areaShape,
                 highlightStyle, segments, progressInSegment, videoUrl,
                 createdUrls, revokedUrls>>

\* The host passes another videoSource to the second copy.
SecondCopyChangeVideoSource ==
  \E vs \in (VideoSources \cup {NoSource}) \ {videoSource} :
    /\ mounted
    /\ ~faulted
    /\ videoSource' = vs
    /\ endedQueued' = FALSE
    /\ UNCHANGED authored
    /\ ResetSession_SecondCopy(vs, tutorialData)
    /\ UrlStep(vs)
    /\ UNCHANGED <<layoutVars, areaShape, highlightStyle, segments,
                   progressInSegment, mounted>>

\* The host passes another tutorialData object to the second copy.
SecondCopyChangeTutorialData ==
  \E td \in Tutorials \cup {NoData} :
    /\ mounted
    /\ ~faulted
    /\ td # NoData \/ tutorialData # NoData
    /\ authored' = td
    /\ endedQueued' = (endedQueued /\ Mounted(videoSource, td))
    /\ UNCHANGED videoSource
    /\ ResetSession_SecondCopy(videoSource, td)
    /\ UNCHANGED <<layoutVars, areaShape, highlightStyle, segments,
                   progressInSegment, videoUrl, createdUrls, revokedUrls, mounted>>

NextSecondCopy ==
  \/ SecondCopyMount
  \/ SecondCopyChangeVideoSource
  \/ SecondCopyChangeTutorialData

SpecSecondCopy == InitSecondCopy /\ [][NextSecondCopy]_vars

\* ================================================================== claims
StopPoints == tutorialData.stopPoints

\* C1: within one run (since the last reset) the k-th stop point activated is
\* the k-th stop point of the tutorial, so stop points are activated in
\* ascending time order and none is activated twice.
C1_ActivationOrder ==
  \A k \in 1..Len(activations) : activations[k] = k

\* C2: a settle callback that fires while a stop point with N areas is active
\* advances activeAreaIndex by 1 and stays paused at the stop when areas
\* remain (activeAreaIndex + 1 < N), and otherwise clears the stop point,
\* advances nextStopPointIndex by exactly 1 and resumes playing; either way
\* it leaves closing.
C2_SettleStep ==
  [][(SettleTimeout /\ activeStopPoint # Null /\ Mounted(videoSource, tutorialData)) =>
       LET N == Len(StopPoints[activeStopPoint].areas) IN
       IF activeAreaIndex + 1 < N
       THEN /\ activeAreaIndex' = activeAreaIndex + 1
            /\ ~isBubbleClosing'
            /\ activeStopPoint' = activeStopPoint
            /\ ~isPlaying'
            /\ nextStopPointIndex' = nextStopPointIndex
       ELSE /\ activeStopPoint' = Null
            /\ nextStopPointIndex' = nextStopPointIndex + 1
            /\ ~isBubbleClosing'
            /\ isPlaying']_vars

\* C3: an acknowledgment issued while the bubble is closing or while no stop
\* point is active changes no state: no session field changes, no
\* onNextInteraction call is logged and no settle callback is scheduled.
AcknowledgeStep == LateAcknowledge \/ \E c \in Controls : Click(c)

C3_AckRefused ==
  [][(AcknowledgeStep /\ (isBubbleClosing \/ activeStopPoint = Null)) =>
       UNCHANGED <<sessionVars, timers, interactionLog, tutorialData>>]_vars

\* C3 witness: the first area of a stop point has been acknowledged and the
\* bubble is closing with its settle callback pending, where a further
\* acknowledgment can arrive.
C3_Witness ==
  /\ isBubbleClosing
  /\ activeStopPoint # Null
  /\ Len(timers) = 1
  /\ interactionLog = <<<<activeStopPoint, activeAreaIndex>>>>
  /\ ENABLED LateAcknowledge

\* C4: a settle callback scheduled before a reset and firing after it leaves
\* nextStopPointIndex, playing, activeStopPoint and activeAreaIndex as the
\* reset set them.
C4_StaleIgnored ==
  [][(SettleTimeout /\ Head(timers).stale) =>
       UNCHANGED <<nextStopPointIndex, isPlaying, activeStopPoint, activeAreaIndex>>]_vars

\* C5: replay from finished yields exactly the initial session state.
InitialSession ==
  /\ ~hasStarted /\ ~isFinished /\ ~isPlaying
  /\ nextStopPointIndex = 0
  /\ activeStopPoint = Null
  /\ activeAreaIndex = 0
  /\ ~isBubbleClosing
  /\ currentTime = 0

C5_ReplayInitial == [][ClickReplay => InitialSession']_vars

\* C6: the laid-out bubble lies inside the container on both axes:
\* 0 <= left <= containerWidth - bubbleWidth, 0 <= top <= containerHeight - bubbleHeight.
C6_BubbleInside ==
  positionStyle # NoStyle =>
    /\ 0 <= positionStyle.left
    /\ positionStyle.left <= containerRect.width - bubbleRect.width
    /\ 0 <= positionStyle.top
    /\ positionStyle.top <= containerRect.height - bubbleRect.height

\* C7: a time update in a started session with no active stop point and the
\* cursor in range activates the stop point at the cursor iff the sampled
\* time has reached its time, and then pauses, snaps the player's and the
\* displayed time to the stop's time and shows area 0.
C7_Activation ==
  [][\A t \in 0..VideoDuration :
       (/\ TimeUpdateAt(t)
        /\ hasStarted /\ activeStopPoint = Null
        /\ nextStopPointIndex < Len(StopPoints)) =>
         LET nextStop == StopPoints[nextStopPointIndex + 1] IN
         IF t >= nextStop.time
         THEN /\ ~isPlaying'
              /\ playerTime' = nextStop.time
              /\ currentTime' = nextStop.time
              /\ activeStopPoint' = nextStopPointIndex + 1
              /\ activeAreaIndex' = 0
         ELSE activeStopPoint' = Null]_vars

\* C7 witness: a stop point activated by a sample that overshot it (the
\* sample reached the end of the video, the stop lies before it), with both
\* clocks snapped back to the stop's time.
C7_Witness ==
  /\ hasStarted /\ ~isFinished /\ ~isPlaying
  /\ activeStopPoint # Null
  /\ activeStopPoint = nextStopPointIndex + 1
  /\ activeAreaIndex = 0
  /\ endedQueued
  /\ timers = <<>>
  /\ currentTime = StopPoints[activeStopPoint].time
  /\ playerTime = currentTime
  /\ currentTime < VideoDuration

C9_CompleteOnce == completeCount <= 1

\* C10: at every firing of onTutorialComplete every stop point has been
\* consumed and none is active.
C10_CompleteAfterAllStops ==
  [][Ended => (nextStopPointIndex = Len(StopPoints) /\ activeStopPoint = Null)]_vars

\* C11: the start notification fires only by a start from idle (not started,
\* not finished), which sets started and playing and fires it exactly once;
\* a started session has had exactly one start notification since the last
\* reset, and in a started or finished session no step fires it again.
C11_StartOnce ==
  [][/\ ClickStart => (/\ ~hasStarted /\ ~isFinished
                       /\ hasStarted' /\ isPlaying' /\ startCount' = 1)
     /\ (startCount' # startCount /\ startCount' # 0) =>
          (~hasStarted /\ ~isFinished /\ startCount = 0)
     /\ (hasStarted \/ isFinished) => ~ENABLED ClickStart
     /\ hasStarted' <=> (startCount' = 1)]_vars

\* C11 witness: a session started from idle and playing, its start
\* notification fired once, with a settle callback of the run before the
\* reset still pending (so this is a second run).
C11_Witness ==
  /\ hasStarted /\ isPlaying /\ ~isFinished
  /\ startCount = 1
  /\ timers # <<>> /\ Head(timers).stale

\* C12: an accepted acknowledgment (a click on a control wired to the handler,
\* with a stop point active and the bubble not closing) fires
\* onNextInteraction exactly once, with the active stop point and the index
\* of the area being left as they are before the handler mutates anything:
\* the stop point, the area index, the cursor and playing are still at their
\* pre-acknowledgment values and the bubble was not closing; and no other
\* step fires the notification.
AcceptedAcknowledge ==
  \E c \in Controls :
    Click(c) /\ Wired(c, StopPoints[activeStopPoint].areas[ActiveArea])

C12_NotifyOnAck ==
  [][/\ AcceptedAcknowledge =>
          /\ ~isBubbleClosing
          /\ interactionLog' = Append(interactionLog, <<activeStopPoint, activeAreaIndex>>)
          /\ Len(timers') = Len(timers) + 1
          /\ UNCHANGED <<activeStopPoint, activeAreaIndex, nextStopPointIndex, isPlaying>>
     /\ Len(interactionLog') > Len(interactionLog) => AcceptedAcknowledge]_vars

\* C12 witness: both areas of a stop point have been acknowledged; the log
\* holds the indices 0 and 1 of the areas left, in that order.
C12_Witness ==
  /\ activeStopPoint # Null
  /\ interactionLog = <<<<activeStopPoint, 0>>, <<activeStopPoint, 1>>>>
  /\ isBubbleClosing
  /\ activeAreaIndex = 1

\* C13: the area the overlay shows at activeAreaIndex i is an area of the
\* active stop point as authored, and exactly i of that stop point's areas
\* have a smaller order: it is the area with the (i+1)-th smallest order,
\* wherever it was authored in the list.
C13_AscendingOrder ==
  ActiveArea # Null =>
    LET shown == StopPoints[activeStopPoint].areas[ActiveArea]
        asAuthored == authored.stopPoints[activeStopPoint].areas
    IN /\ \E j \in 1..Len(asAuthored) : asAuthored[j] = shown
       /\ Cardinality({j \in 1..Len(asAuthored) : asAuthored[j].order < shown.order})
            = activeAreaIndex

\* C13 witness: a stop point authored with its areas in descending order
\* shows, at index 1, the area authored first (order 2).
C13_Witness ==
  /\ ActiveArea # Null
  /\ activeAreaIndex = 1
  /\ Len(authored.stopPoints[activeStopPoint].areas) = 2
  /\ authored.stopPoints[activeStopPoint].areas[1].order = 2
  /\ StopPoints[activeStopPoint].areas[ActiveArea] = authored.stopPoints[activeStopPoint].areas[1]

\* C14: the stored tutorial data is never changed by the player: it is at
\* all times the data that was passed in, each areas list in its authored
\* order.
C14_DataImmutable == tutorialData = authored

\* C15: for the shown area, without hasNextButton a click on the highlight or
\* on the overlay is exactly one acknowledgment (one notification for the
\* area shown, one settle callback, the bubble closing); with hasNextButton
\* a click on the highlight or on the overlay changes nothing, and the
\* Continue control is exactly one acknowledgment.
C15_ClickGating ==
  [][\A c \in Controls :
       Click(c) =>
         LET shown == StopPoints[activeStopPoint].areas[ActiveArea]
             acknowledged ==
               /\ interactionLog' = Append(interactionLog, <<activeStopPoint, activeAreaIndex>>)
               /\ Len(timers') = Len(timers) + 1
               /\ isBubbleClosing'
         IN IF ~shown.hasNextButton
            THEN c \in {"highlight", "overlay"} => acknowledged
            ELSE IF c = "continue" THEN acknowledged ELSE UNCHANGED vars]_vars

\* C15 witness: the second area of a stop point, which has no Continue
\* button, has been left by a click: its settle callback is pending.
C15_Witness ==
  /\ activeStopPoint # Null
  /\ isBubbleClosing
  /\ Len(timers) = 1
  /\ ~timers[1].stale
  /\ timers[1].activeAreaIndex = 1
  /\ ~timers[1].activeStopPoint.areas[2].hasNextButton

\* C16: once the geometry is resolved, for a polygon with exactly 4 points
\* the highlight rectangle is the axis-aligned bounding rectangle of the
\* points (every point inside it, every side touched by a point) and the
\* bubble's target is the mean of the 4 points with zero size, lying inside
\* that rectangle; the quadrant (0,0),(0.5,0),(0.5,0.5),(0,0.5) resolves to
\* {left 0, top 0, width 50, height 50} and the anchor (25, 25); for a box or
\* an oval the rectangle is the stored box scaled by 100.
C16_GeometryResolved ==
  targetStyle # NoStyle =>
    LET h == highlightStyle
        t == targetStyle
    IN
    /\ (areaShape.type = "polygon" /\ "points" \in DOMAIN areaShape
          /\ Len(areaShape.points) = 4) =>
         LET ps == areaShape.points
             px(i) == Percent(ps[i].x)
             py(i) == Percent(ps[i].y)
         IN /\ \A i \in 1..4 : /\ h.left <= px(i) /\ px(i) <= h.left + h.width
                                 /\ h.top <= py(i) /\ py(i) <= h.top + h.height
            /\ \E i \in 1..4 : px(i) = h.left
            /\ \E i \in 1..4 : px(i) = h.left + h.width
            /\ \E i \in 1..4 : py(i) = h.top
            /\ \E i \in 1..4 : py(i) = h.top + h.height
            /\ t.width = 0 /\ t.height = 0
            /\ 4 * t.left = px(1) + px(2) + px(3) + px(4)
            /\ 4 * t.top = py(1) + py(2) + py(3) + py(4)
            /\ h.left <= t.left /\ t.left <= h.left + h.width
            /\ h.top <= t.top /\ t.top <= h.top + h.height
    /\ (areaShape = [type |-> "polygon",
                     points |-> <<[x |-> 0, y |-> 0], [x |-> 2, y |-> 0],
                                  [x |-> 2, y |-> 2], [x |-> 0, y |-> 2]>>]) =>
         /\ h = [left |-> 0, top |-> 0, width |-> 50, height |-> 50]
         /\ t = [left |-> 25, top |-> 25, width |-> 0, height |-> 0]
    /\ (areaShape.type \in {"box", "oval"} /\ "box" \in DOMAIN areaShape) =>
         /\ 4 * h.left = 100 * areaShape.box.x
         /\ 4 * h.top = 100 * areaShape.box.y
         /\ 4 * h.width = 100 * areaShape.box.width
         /\ 4 * h.height = 100 * areaShape.box.height

\* C16 witness: the quadrant polygon has been resolved to its bounding
\* rectangle and its centroid anchor.
C16_Witness ==
  /\ areaShape.type = "polygon"
  /\ "points" \in DOMAIN areaShape
  /\ areaShape.points = <<[x |-> 0, y |-> 0], [x |-> 2, y |-> 0],
                          [x |-> 2, y |-> 2], [x |-> 0, y |-> 2]>>
  /\ highlightStyle = [left |-> 0, top |-> 0, width |-> 50, height |-> 50]
  /\ targetStyle = [left |-> 25, top |-> 25, width |-> 0, height |-> 0]

\* C17: once the geometry is resolved, an area with malformed geometry (a
\* polygon whose point list is missing or has not exactly 4 points, a box or
\* an oval whose box is missing) has the all-zero rectangle both as its
\* highlight and as its bubble target.
C17_MalformedZero ==
  LET malformed ==
        \/ areaShape.type \in {"box", "oval"} /\ "box" \notin DOMAIN areaShape
        \/ /\ areaShape.type = "polygon"
           /\ "points" \in DOMAIN areaShape => Len(areaShape.points) # 4
  IN (targetStyle # NoStyle /\ malformed) =>
       /\ highlightStyle = ZeroRect
       /\ targetStyle = ZeroRect

\* C18: the laid-out bubble is on the side the priority order picks: left of
\* the target (pointer right) when the target's centre is in the right half
\* and target.left - gap >= bubble width; else right of it (pointer left)
\* when the centre is in the left half and the right clearance suffices;
\* else right if the right clearance suffices, else left if the left
\* clearance suffices; else above (pointer down) if there is room above; else
\* below (pointer up). Exactly one side is picked for every input.
C18_PlacementPriority ==
  positionStyle # NoStyle =>
    LET cw == containerRect.width
        bw == bubbleRect.width
        bh == bubbleRect.height
        tl == ToPx(targetStyle.left, containerRect.width)
        tt == ToPx(targetStyle.top, containerRect.height)
        tw == ToPx(targetStyle.width, containerRect.width)
        th == ToPx(targetStyle.height, containerRect.height)
        rightHalf == 2 * tl + tw > cw
        leftRoom == tl - gap >= bw
        rightRoom == cw - (tl + tw) - gap >= bw
        aboveRoom == tt - gap - bh >= 0
        side == IF rightHalf /\ leftRoom THEN "left"
                ELSE IF ~rightHalf /\ rightRoom THEN "right"
                ELSE IF rightRoom THEN "right"
                ELSE IF leftRoom THEN "left"
                ELSE IF aboveRoom THEN "above"
                ELSE "below"
    IN CASE side = "left" ->
              arrowDirection = "left" /\ positionStyle.left + bw <= tl
         [] side = "right" ->
              arrowDirection = "right" /\ positionStyle.left >= tl + tw
         [] side = "above" ->
              arrowDirection = "bottom" /\ positionStyle.top + bh <= tt
         [] side = "below" ->
              arrowDirection = "top" /\ positionStyle.top >= tt + th

\* C18 witness: a bubble that fits on neither side of its target (rules 1 to
\* 3 all fail) and has room above it is laid out above, pointer down.
C18_Witness ==
  /\ positionStyle # NoStyle
  /\ ToPx(targetStyle.left, containerRect.width) - gap < bubbleRect.width
  /\ containerRect.width - ToPx(targetStyle.left + targetStyle.width, containerRect.width) - gap
       < bubbleRect.width
  /\ arrowDirection = "bottom"
  /\ positionStyle.top + bubbleRect.height + gap = ToPx(targetStyle.top, containerRect.height)

\* C19: once the bubble is laid out over an area whose highlighted region is
\* a rectangle (a box, an oval's box, or a polygon whose 4 points are the
\* corners of its bounding rectangle taken around its perimeter), the
\* rectangle the bubble occupies and the highlighted rectangle do not
\* overlap: the bubble lies wholly to one side of it.
C19_NoOverlap ==
  LET rectangular ==
        \/ areaShape.type \in {"box", "oval"} /\ "box" \in DOMAIN areaShape
        \/ /\ areaShape.type = "polygon"
           /\ "points" \in DOMAIN areaShape
           /\ Len(areaShape.points) = 4
           /\ Cardinality({areaShape.points[i] : i \in 1..4}) = 4
           /\ \A i \in 1..4 :
                LET p == areaShape.points[i]
                    q == areaShape.points[(i % 4) + 1]
                IN (p.x = q.x) # (p.y = q.y)
  IN (positionStyle # NoStyle /\ highlightStyle # NoStyle /\ rectangular) =>
       LET left == ToPx(highlightStyle.left, containerRect.width)
           top == ToPx(highlightStyle.top, containerRect.height)
           right == left + ToPx(highlightStyle.width, containerRect.width)
           bottom == top + ToPx(highlightStyle.height, containerRect.height)
       IN \/ positionStyle.left + bubbleRect.width <= left
          \/ right <= positionStyle.left
          \/ positionStyle.top + bubbleRect.height <= top
          \/ bottom <= positionStyle.top

\* C20: with duration D > 0 and stop times t1 < ... < tn the timeline's
\* segments are [0,t1],[t1,t2],...,[t(n-1),tn], each starting where the
\* previous one ends, followed by a trailing segment [tn,D] exactly when
\* tn < D; when every stop time is <= D they end at D and their widths sum
\* to 100 percent; with D = 0 there are no segments.
C20_TimelineSegments ==
  LET n == Len(StopPoints)
      D == duration
      count == Len(segments)
      RECURSIVE WidthSum(_)
      WidthSum(k) == IF k = 0 THEN 0
                     ELSE WidthSum(k - 1) + SegmentWidth(segments[k], D).num
  IN /\ D = 0 => segments = <<>>
     /\ D > 0 =>
          /\ count >= 1
          /\ segments[1].start = 0
          /\ \A i \in 2..count : segments[i].start = segments[i - 1].end
          /\ count >= n
          /\ \A i \in 1..n : segments[i].end = StopPoints[i].time
          /\ count = n + 1 <=> (n = 0 \/ StopPoints[n].time < D)
          /\ count = n + 1 => segments[count].end = D
          /\ count \in {n, n + 1}
          /\ (\A i \in 1..n : StopPoints[i].time <= D) =>
               /\ segments[count].end = D
               /\ WidthSum(count) = 100 * D

\* C20 witness: two stop points, the last before the end of the video: three
\* segments, the trailing one from the last stop time to the duration.
C20_Witness ==
  /\ duration > 0
  /\ Len(StopPoints) = 2
  /\ StopPoints[2].time < duration
  /\ Len(segments) = 3
  /\ segments[3] = [start |-> StopPoints[2].time, end |-> duration]

\* C21 as stated: each segment of the timeline is filled 0 while currentTime
\* is at or before its start, 100% once currentTime is at or past its end,
\* and (currentTime - start) / (end - start) of 100% in between; every fill
\* lies in [0, 100], at most one segment is partially filled, every segment
\* before it is full and every segment after it is empty.
C21_SegmentFill_AsStated ==
  LET n == Len(segments)
      Fill(i) == progressInSegment[i]
      Partial(i) == 0 < Fill(i).num /\ Fill(i).num < 100 * Fill(i).den
  IN /\ Len(progressInSegment) = n
     /\ \A i \in 1..n :
          /\ Fill(i).den > 0
          /\ 0 <= Fill(i).num /\ Fill(i).num <= 100 * Fill(i).den
          /\ currentTime <= segments[i].start => Fill(i).num = 0
          /\ currentTime >= segments[i].end => Fill(i).num = 100 * Fill(i).den
          /\ (segments[i].start < currentTime /\ currentTime < segments[i].end)
               => Fill(i).num * (segments[i].end - segments[i].start)
                    = (currentTime - segments[i].start) * 100 * Fill(i).den
     /\ Cardinality({i \in 1..n : Partial(i)}) <= 1
     /\ \A i \in 1..n :
          Partial(i) =>
            /\ \A j \in 1..(i - 1) : Fill(j).num = 100 * Fill(j).den
            /\ \A j \in (i + 1)..n : Fill(j).num = 0

\* C21 (amended): each segment of the timeline is filled 100% once currentTime
\* is at or past its end, otherwise 0 while currentTime is at or before its
\* start, otherwise (currentTime - start) / (end - start) of 100%; every fill
\* lies in [0, 100], at most one segment is partially filled, every segment
\* before it is full and every segment after it is empty.
C21_SegmentFill ==
  LET n == Len(segments)
      Fill(i) == progressInSegment[i]
      Partial(i) == 0 < Fill(i).num /\ Fill(i).num < 100 * Fill(i).den
  IN /\ Len(progressInSegment) = n
     /\ \A i \in 1..n :
          /\ Fill(i).den > 0
          /\ 0 <= Fill(i).num /\ Fill(i).num <= 100 * Fill(i).den
          /\ currentTime >= segments[i].end => Fill(i).num = 100 * Fill(i).den
          /\ (currentTime < segments[i].end /\ currentTime <= segments[i].start)
               => Fill(i).num = 0
          /\ (segments[i].start < currentTime /\ currentTime < segments[i].end)
               => Fill(i).num * (segments[i].end - segments[i].start)
                    = (currentTime - segments[i].start) * 100 * Fill(i).den
     /\ Cardinality({i \in 1..n : Partial(i)}) <= 1
     /\ \A i \in 1..n :
          Partial(i) =>
            /\ \A j \in 1..(i - 1) : Fill(j).num = 100 * Fill(j).den
            /\ \A j \in (i + 1)..n : Fill(j).num = 0

\* C21 witness: stop points at 0 and 2, duration 3, currentTime 1: the empty
\* first segment is full, the second is half filled, the third is empty.
C21_Witness ==
  /\ segments = <<[start |-> 0, end |-> 0], [start |-> 0, end |-> 2],
                  [start |-> 2, end |-> 3]>>
  /\ currentTime = 1
  /\ progressInSegment = <<[num |-> 100, den |-> 1], [num |-> 100, den |-> 2],
                           [num |-> 0, den |-> 1]>>

\* C22: a change of the video source or of the tutorial data that leaves
\* both given resets the session in whatever state it was: afterwards it is
\* not started, not finished, not playing, the cursor and the area index are
\* 0, no stop point is active, the bubble is not closing and currentTime is 0.
C22_PropsChangeResets ==
  [][((ChangeVideoSource \/ ChangeTutorialData) /\ Mounted(videoSource', tutorialData'))
       => InitialSession']_vars

\* C23: a time update delivered while the session has not started or while a
\* stop point is active changes no session field (the displayed time, the
\* cursor, the area index and playing included), fires no notification and
\* schedules nothing.
C23_IgnoredTimeUpdate ==
  [][\A t \in 0..VideoDuration :
       (TimeUpdateAt(t) /\ (~hasStarted \/ activeStopPoint # Null)) =>
         UNCHANGED <<sessionVars, timers, activations, interactionLog, startCount,
                     completeCount, tutorialData>>]_vars

\* C23 witness: a stop point with a second area shown is active and the
\* paused player reports its time (the seek to the stop's time raises a time
\* update): the update can be delivered and finds the stop point active.
C23_Witness ==
  /\ hasStarted
  /\ activeStopPoint # Null
  /\ activeAreaIndex = 1
  /\ ~isBubbleClosing
  /\ playerTime = StopPoints[activeStopPoint].time
  /\ ENABLED TimeUpdateAt(playerTime)

\* C24: with the cursor past the last stop point, a time update in a started
\* session with no stop point active only sets the displayed time to the
\* sampled time: playing, the stop point, the area index and the cursor are
\* left alone and no stop point is activated.
C24_CursorOutOfRange ==
  [][\A t \in 0..VideoDuration :
       (/\ TimeUpdateAt(t)
        /\ hasStarted /\ activeStopPoint = Null
        /\ nextStopPointIndex >= Len(StopPoints)) =>
         /\ currentTime' = t
         /\ UNCHANGED <<isPlaying, activeStopPoint, activeAreaIndex, nextStopPointIndex,
                        hasStarted, isFinished, isBubbleClosing, activations>>]_vars

\* C24 witness: every stop point has been consumed and the displayed time
\* has tracked the player past the last stop time.
C24_Witness ==
  /\ hasStarted /\ isPlaying /\ ~isFinished
  /\ activeStopPoint = Null
  /\ Len(StopPoints) >= 1
  /\ nextStopPointIndex = Len(StopPoints)
  /\ activations = [k \in 1..Len(StopPoints) |-> k]
  /\ currentTime > StopPoints[Len(StopPoints)].time
  /\ currentTime = playerTime

\* C25: the cursor changes only by +1, when the settle callback of a stop
\* point's final area fires, or to 0, by replay or by the reset on a props
\* change; every other step leaves it unchanged.
C25_CursorMonotone ==
  [][nextStopPointIndex' # nextStopPointIndex =>
       \/ /\ SettleTimeout
          /\ Head(timers).activeAreaIndex + 1 >= Len(Head(timers).activeStopPoint.areas)
          /\ nextStopPointIndex' = nextStopPointIndex + 1
       \/ /\ ClickReplay \/ ChangeVideoSource \/ ChangeTutorialData
          /\ nextStopPointIndex' = 0]_vars

\* C25 witness: two stop points have been activated and consumed in one run.
C25_Witness ==
  /\ nextStopPointIndex = 2
  /\ activations = <<1, 2>>
  /\ activeStopPoint = Null
  /\ isPlaying

\* The steps of the session other than a reset (replay or a change of props).
NonResetStep ==
  \/ TimeUpdate
  \/ DurationChange
  \/ Ended
  \/ ClickStart
  \/ \E c \in Controls : Click(c)
  \/ LateAcknowledge
  \/ SettleTimeout

\* C26: a session paused at a stop point whose overlay renders nothing (no
\* area at the active index) is not stuck: some step other than a reset
\* (a time update, ended, a click, a settle callback) can still change it.
C26_EmptyAreasRecoverable ==
  (/\ Mounted(videoSource, tutorialData)
   /\ activeStopPoint # Null
   /\ ~isBubbleClosing
   /\ ActiveArea = Null) => ENABLED <<NonResetStep>>_vars

\* C27: with the video source or the tutorial data missing the component
\* shows its placeholder and raises no exception: the mount and every reset
\* that runs while the playback surface is not mounted complete without a
\* fault.
C27_MissingInputNoFault ==
  (mounted /\ ~Mounted(videoSource, tutorialData)) => ~faulted

\* C28: every object URL created for a File source is revoked once that
\* source is superseded or the component is unmounted, the URL of the current
\* source is not revoked while the component is mounted, string URLs are
\* never revoked, and at most one created URL is live.
C28_UrlReleased ==
  /\ \A u \in revokedUrls : u.blob /\ u \in createdUrls
  /\ (mounted /\ videoUrl.blob) => videoUrl \notin revokedUrls
  /\ \A u \in createdUrls : (u # videoUrl \/ ~mounted) => u \in revokedUrls
  /\ videoUrl.blob => videoUrl \in createdUrls
  /\ Cardinality(createdUrls \ revokedUrls) <= 1

\* C28 witness: a second File has superseded the first: the second File's URL
\* was created while the first one's was on record, and is now the only one.
C28_Witness ==
  /\ mounted
  /\ videoSource = "otherFile"
  /\ videoUrl = ObjectUrl("otherFile", 2)
  /\ createdUrls = {videoUrl}
  /\ revokedUrls = {}

\* C29: whenever a stop point is active, playing is false.
C29_PausedAtStop == activeStopPoint # Null => ~isPlaying

\* C29 witness: the first area of a two-area stop point has settled: the
\* stop point is still active, its second area shown, and the player paused.
C29_Witness ==
  /\ activeStopPoint # Null
  /\ activeAreaIndex = 1
  /\ ~isBubbleClosing
  /\ timers = <<>>
  /\ Len(interactionLog) = 1
  /\ ~isPlaying

\* C30: playing is true only in a started, unfinished session.
C30_PlayingOnlyWhenStarted == isPlaying => (hasStarted /\ ~isFinished)

\* C31: at most one settle callback is pending at any time, and one is
\* pending exactly while the bubble is closing, also after a reset during
\* closing.
C31_OneSettlePending ==
  /\ Len(timers) <= 1
  /\ Len(timers) = 1 <=> isBubbleClosing

\* C31 witness: a reset has happened during closing: the callback scheduled
\* before it is still the one pending.
C31_Witness ==
  /\ Len(timers) = 1
  /\ timers[1].stale
  /\ isBubbleClosing
  /\ ~hasStarted

\* C32: whenever a stop point with at least one area is active in the rendered
\* player, activeAreaIndex is a valid index into its areas, so a shown area
\* exists, also when a settle callback scheduled for a previous stop point
\* fires after another stop point has become active.
C32_AreaIndexValid ==
  (Mounted(videoSource, tutorialData) /\ activeStopPoint # Null
     /\ Len(StopPoints[activeStopPoint].areas) >= 1)
    => (0 <= activeAreaIndex
          /\ activeAreaIndex < Len(StopPoints[activeStopPoint].areas))

\* C33: closing is transient: whenever the bubble is closing, a state with
\* the closing flag cleared follows, whether or not a reset happens in
\* between, given that the scheduled settle callback fires.
C33_ClosingTransient == isBubbleClosing ~> ~isBubbleClosing

\* C33 witness: an acknowledgment has been accepted in the running session:
\* the bubble is closing over the active stop point.
C33_Witness ==
  /\ isBubbleClosing
  /\ activeStopPoint # Null
  /\ Len(timers) = 1
  /\ ~timers[1].stale

\* The session has finished with every stop point activated and consumed.
Completed ==
  /\ isFinished
  /\ activeStopPoint = Null
  /\ nextStopPointIndex = Len(StopPoints)
  /\ \A i \in 1..Len(StopPoints) : \E k \in 1..Len(activations) : activations[k] = i

\* C34: for well-formed tutorial data with every stop time below the
\* duration, a started session in which time updates keep arriving, every
\* shown area is acknowledged and every settle callback fires activates and
\* consumes every stop point and then reaches finished: it is finished only
\* with every stop point consumed, it does get there, and no state short of
\* finished is a deadlock.
C34_ProgressToCompletion ==
  /\ [](isFinished => Completed)
  /\ []((hasStarted /\ ~isFinished) => ENABLED <<NextSession>>_vars)
  /\ hasStarted ~> Completed

\* C34 witness: a session over two stop points has finished with both
\* activated and consumed.
C34_Witness ==
  /\ Completed
  /\ Len(StopPoints) = 2
  /\ completeCount = 1

\* C35: when the settle step of an acknowledgment of this run resumes
\* playback from the stop point shown, of N areas, onNextInteraction has
\* fired exactly N times since that stop point was activated, each time with
\* that stop point, with the area indices 0, 1, ..., N-1 in that order.
C35_NotifyEachArea ==
  [][(SettleTimeout /\ ~Head(timers).stale /\ Mounted(videoSource, tutorialData)
        /\ activeStopPoint # Null /\ activeStopPoint' = Null)
       => interactionLog =
            [i \in 1..Len(StopPoints[activeStopPoint].areas)
               |-> <<activeStopPoint, i - 1>>]]_vars

\* C35 witness: the second stop point, of two areas, has been acknowledged
\* through: both notifications are on record and its last settle callback is
\* pending.
C35_Witness ==
  /\ Mounted(videoSource, tutorialData)
  /\ Len(StopPoints) = 2
  /\ activeStopPoint = 2
  /\ Len(StopPoints[2].areas) = 2
  /\ interactionLog = <<<<2, 0>>, <<2, 1>>>>
  /\ Len(timers) = 1
  /\ ~timers[1].stale

\* C36: finished is stable until replay or reset: from a finished state every
\* other step leaves finished true and playing false and activates no stop
\* point; and finished never holds together with an active stop point.
C36_FinishedStable ==
  /\ [](~(isFinished /\ activeStopPoint # Null))
  /\ [][(isFinished /\ NonResetStep)
          => (isFinished' /\ ~isPlaying'
                /\ (activeStopPoint = Null => activeStopPoint' = Null))]_vars

\* C37: no stop point is skipped by overshoot: after a time update processed
\* in a started, unfinished session with the cursor in range, the displayed
\* time is at most the time of the stop point at the cursor, and equal to it
\* exactly when that stop point is active; a sample at or past the threshold
\* of the stop point at the cursor, however many later thresholds it also
\* passes, activates that stop point only, rewinds the surface and the
\* displayed time to it and leaves the cursor on it.
C37_NoOvershootSkip ==
  [][\A t \in 0..VideoDuration :
       (/\ TimeUpdateAt(t)
        /\ hasStarted /\ ~isFinished
        /\ nextStopPointIndex < Len(StopPoints))
       => LET nextStop == StopPoints[nextStopPointIndex + 1] IN
          /\ currentTime' <= nextStop.time
          /\ currentTime' = nextStop.time <=> activeStopPoint' = nextStopPointIndex + 1
          /\ (activeStopPoint = Null /\ t >= nextStop.time)
               => /\ activeStopPoint' = nextStopPointIndex + 1
                  /\ currentTime' = nextStop.time
                  /\ playerTime' = nextStop.time
                  /\ activations' = Append(activations, nextStopPointIndex + 1)
                  /\ nextStopPointIndex' = nextStopPointIndex]_vars

\* C37 witness: one sample at the end of the video has passed the thresholds
\* of both stop points: the first is active, time is back at its threshold
\* and the cursor is still on it.
C37_Witness ==
  /\ Mounted(videoSource, tutorialData)
  /\ Len(StopPoints) = 2
  /\ StopPoints[2].time < VideoDuration
  /\ hasStarted /\ ~isFinished
  /\ endedQueued
  /\ activations = <<1>>
  /\ activeStopPoint = 1
  /\ nextStopPointIndex = 0
  /\ currentTime = StopPoints[1].time
  /\ playerTime = StopPoints[1].time

====
